---- MODULE Spec2Model ----
(***************************************************************************)
(* The event-propagation pipeline of the order service: the transactional  *)
(* outbox, the outbox relay worker, the order lifecycle processor and the  *)
(* idempotent user-event consumer.                                         *)
(*                                                                         *)
(* The database is PostgreSQL at READ COMMITTED: a commit makes all writes *)
(* of the transaction visible at once and releases every row lock the      *)
(* transaction holds; an UPDATE of a row locked by another transaction     *)
(* waits for that transaction to end.  A SQLAlchemy Session expires its    *)
(* objects on commit and rollback, so the next attribute access reloads    *)
(* the row without a lock.                                                 *)
(***************************************************************************)
EXTENDS Integers, Sequences, FiniteSets, TLC

(***************************************************************************)
(* Bounds of the model.                                                    *)
(***************************************************************************)
\* rows of the outbox table
MaxOutboxRows == 3
\* rows one relay cycle selects (OUTBOX_BATCH_SIZE scaled down)
BatchSize == 2
\* injected faults (failed commits, killed processes, fast-store errors)
\* per run
MaxFaults == 2
\* orders the API creates
MaxOrders == 2
\* the clock stops here
MaxTime == 152
\* the clock of the processors running alone stops here
MaxLateTime == 394
\* characters of a trace id and of a span id
TraceIdLen == 3
SpanIdLen == 2
\* length of the inbound user-event log
MaxLog == 2
\* outbox rows in the backlog of the runs checked for progress
MaxLiveRows == 2
(***************************************************************************)
(* Program constants.                                                      *)
(***************************************************************************)
ORDER_CONFIRM_DELAY == 30
ORDER_SHIP_DELAY == 120

NULL == -1

Users == {"u1", "u2"}
Workers == {"w1", "w2"}
Replicas == {"p1", "p2"}
Requests == {"r1"}
OrderIds == 1..MaxOrders
EventIds == {"e1", "e2"}
UserEventTypes == {"user.created", "user.updated", "user.deleted"}

VARIABLES
    now,            \* the clock, in seconds
    faults,         \* faults injected so far
    orders,         \* table orders: order id -> row
    outbox,         \* table outbox_events: sequence of rows, event_id = index
    bus,            \* messages the bus accepted on the order topics, in order
    \* relay worker (outbox_worker.py), one process per worker
    relayReplicas,  \* the relay workers deployed
    relayPc, relayBatch, rowLocks,
    \* order lifecycle processor (order_processor.py), one task per replica
    procReplicas,
    procPc, procBatch, procLoaded, orderLocks,
    \* order API (routes/order.py), one session per request
    apiPc, apiOrder,
    \* user-event consumer (user_consumer.py) and the fast store
    userLog, userEvent, conPos, conCommitted, conPc, conBatch,
    processed, userCache, duplicates, handled,
    \* a traceparent header under parse (core/tracing.py): the header, the
    \* context parsed from it, and the header formatted from that context
    header, context, traceparent,
    \* the request-scoped store of trace ids (core/tracing.py lines 36-41),
    \* one per task: a processor replica, the consumer, an HTTP request
    store,
    \* the service process: the last answer of GET /health/ready
    \* (api/main.py), the shutdown of the application (main.py lifespan), and
    \* the shutdown flag of each relay worker (outbox_worker.py line 40)
    health, lifespan, shutdown_flag,
    \* a task that sets contexts one after another: its three context
    \* variables (core/tracing.py lines 36-41), the context last passed to
    \* set_trace_context, and the objects its database session holds
    contextvars, passed, session

relayVars == <<relayReplicas, relayPc, relayBatch, rowLocks>>
procVars == <<procReplicas, procPc, procBatch, procLoaded, orderLocks>>
apiVars == <<apiPc, apiOrder>>
unitVars == <<contextvars, passed, session>>
serviceVars == <<health, lifespan, shutdown_flag, unitVars>>
parseVars == <<header, context, traceparent, serviceVars>>
traceVars == <<parseVars, store>>
conVars == <<traceVars, userLog, userEvent, conPos, conCommitted, conPc, conBatch,
             processed, userCache, duplicates, handled>>
\* the state of the consumer and the fast store without the trace ids
conState == <<parseVars, userLog, userEvent, conPos, conCommitted, conPc, conBatch,
              processed, userCache, duplicates, handled>>
vars == <<now, faults, orders, outbox, bus, relayVars, procVars, apiVars, conVars>>

Range(s) == {s[i] : i \in 1..Len(s)}
Min(a, b) == IF a <= b THEN a ELSE b

(***************************************************************************)
(* Rows and the writes of one transaction.                                 *)
(***************************************************************************)
\* models.py Order: a new order is pending and has no lifecycle fields
Order(user_id, t) ==
    [user_id |-> user_id, status |-> "pending", created_at |-> t,
     confirmed_at |-> NULL, shipped_at |-> NULL,
     payment_id |-> NULL, tracking_number |-> NULL, carrier |-> "none"]

\* models.py lines 166-193: the fields class OutboxEvent declares. The
\* columns trace_id, span_id and parent_span_id that migration
\* a1b2c3d4e5f6 adds to table outbox_events are not among them.
OutboxEventFields ==
    {"id", "event_id", "event_type", "topic", "partition_key", "payload",
     "published", "published_at", "attempts", "last_error",
     "created_at", "updated_at"}

\* event.trace_id, event.span_id: reading an attribute the class of the
\* object does not declare raises AttributeError
getattr_raises(field) == field \notin OutboxEventFields

\* models.py OutboxEvent: a new row is unpublished with no attempts;
\* order_id is the order id of the payload. A keyword argument that names no
\* declared field is not kept, and the row has NULL in that column.
OutboxEvent(event_id, event_type, order_id, partition_key, trace_id, t) ==
    [event_id |-> event_id, event_type |-> event_type, topic |-> event_type,
     order_id |-> order_id, partition_key |-> partition_key,
     trace_id |-> IF "trace_id" \in OutboxEventFields THEN trace_id ELSE NULL,
     published |-> FALSE, published_at |-> NULL, attempts |-> 0,
     last_error |-> "none", created_at |-> t, updated_at |-> t]

\* uuid4(): a value never drawn before; the rows of the outbox are numbered
\* in commit order and a transaction draws the number of the row it adds
uuid4(ob) == Len(ob) + 1

\* OutboxService.create_event: the row joins the writes of the caller's
\* transaction; trace_id is the trace of the caller's context
\* (get_trace_context(), lines 73 and 95), NULL when there is none
create_event(ob, event_type, order_id, partition_key, trace_id, t) ==
    Append(ob, OutboxEvent(uuid4(ob), event_type, order_id, partition_key,
                           trace_id, t))

\* partition_key = None (the default of create_event)
NoKey == ""

\* core/tracing.py generate_trace_id: a trace id never drawn before. The
\* request that creates the n-th order draws 2n, the processor draws 2k+1
\* for the outbox row k it is about to add.
generate_trace_id(n) == 2 * n

\* order_processor.py lines 88-99 and 204-215: the order.created row of the
\* order, looked up by type, partition key and the order id of the payload
OriginalEvents(ob, order_id, user_id) ==
    {i \in DOMAIN ob : /\ ob[i].event_type = "order.created"
                       /\ ob[i].partition_key = user_id
                       /\ ob[i].order_id = order_id}

\* lines 101-121 and 217-234: the trace of the original event is continued
\* when it has one; without it a new trace is started
ProcessorTrace(ob, order_id, user_id) ==
    LET found == OriginalEvents(ob, order_id, user_id)
    IN IF found # {} /\ ob[CHOOSE i \in found : TRUE].trace_id # NULL
       THEN ob[CHOOSE i \in found : TRUE].trace_id
       ELSE generate_trace_id(uuid4(ob)) + 1

\* lines 101-121 and 217-234: the parent of the processor's span is the span
\* of the original event, named here by the order it created
ProcessorParent(ob, order_id, user_id) ==
    LET found == OriginalEvents(ob, order_id, user_id)
    IN IF found # {} /\ ob[CHOOSE i \in found : TRUE].trace_id # NULL
       THEN order_id ELSE NULL

\* lines 102 and 217, `original_event and original_event.trace_id`: the
\* attribute is read when a row was found, and the read raises
original_event_raises(ob, order_id, user_id) ==
    /\ OriginalEvents(ob, order_id, user_id) # {}
    /\ getattr_raises("trace_id")

OutboxRowsOf(ob, order_id, event_type) ==
    {i \in DOMAIN ob : ob[i].order_id = order_id /\ ob[i].event_type = event_type}

\* the envelope of an inbound user event (events/user_events.py)
UserEvent(event_type, user_id, trace_id) ==
    [event_type |-> event_type, user_id |-> user_id, trace_id |-> trace_id]

\* consumers/user_consumer.py line 69: the trace of the traceparent header a
\* user event arrives with, NULL when it has none
InboundTraces == {NULL, generate_trace_id(0)}

\* a request that has staged nothing
NoOrder == [user_id |-> "none", created_at |-> NULL,
            cached |-> "none", directory |-> "none"]

(***************************************************************************)
(* The committed histories the relay workers can find in the database: the *)
(* API and the lifecycle processor ran one transaction after the other.    *)
(***************************************************************************)
\* a creation that writes the order and no outbox row
create_order_commit_order_only(db, order_id, user_id, t) ==
    [orders |-> (order_id :> Order(user_id, t)) @@ db.orders,
     outbox |-> db.outbox]

\* a creation whose order.created row is written with the default
\* partition_key = None
create_order_commit_keyless(db, order_id, user_id, t) ==
    [orders |-> (order_id :> Order(user_id, t)) @@ db.orders,
     outbox |-> create_event(db.outbox, "order.created", order_id, NoKey,
                             generate_trace_id(order_id), t)]

\* routes/order.py create_order: order and order.created row in one commit
create_order_commit(db, order_id, user_id, t) ==
    [orders |-> (order_id :> Order(user_id, t)) @@ db.orders,
     outbox |-> create_event(db.outbox, "order.created", order_id, user_id,
                             generate_trace_id(order_id), t)]

\* the UPDATE orders SET ... WHERE id = ... process_pending_orders flushes:
\* status is in the SET list only when it differs from the loaded value
confirm_update(row, loaded, payment_id, t) ==
    [row EXCEPT !.status = IF loaded = "confirmed" THEN @ ELSE "confirmed",
                !.confirmed_at = t, !.payment_id = payment_id]

\* lines 123-155: the writes the commit of one confirmation makes durable
\* together: the order's update and its order.confirmed row
confirm_writes(db, order_id, loaded, t) ==
    [orders |-> [db.orders EXCEPT ![order_id] =
                    confirm_update(@, loaded, uuid4(db.outbox), t)],
     outbox |-> create_event(db.outbox, "order.confirmed", order_id,
                 db.orders[order_id].user_id,
                 ProcessorTrace(db.outbox, order_id, db.orders[order_id].user_id),
                 t)]

EmptyDb == [orders |-> <<>>, outbox |-> <<>>]

\* one step of a history: a user creates an order. No other transaction of
\* the service commits: the processor and the relay raise on the
\* order.created row before they write (getattr_raises), the consumer
\* before it cancels (publish_event_raises)
HistoryCommands ==
    {[kind |-> "create", user_id |-> u, order_id |-> 0] : u \in Users}

HistoryStep(db, c, t) ==
    create_order_commit(db, Cardinality(DOMAIN db.orders) + 1, c.user_id, t)

HistoryStepOk(db, c) == Len(db.outbox) < MaxOutboxRows

RECURSIVE Replay(_, _, _)
Replay(db, h, t) ==
    IF h = <<>> THEN db
    ELSE Replay(HistoryStep(db, Head(h), t), Tail(h), t + ORDER_SHIP_DELAY + 1)

RECURSIVE ReplayOk(_, _, _)
ReplayOk(db, h, t) ==
    \/ h = <<>>
    \/ /\ HistoryStepOk(db, Head(h))
       /\ ReplayOk(HistoryStep(db, Head(h), t), Tail(h), t + ORDER_SHIP_DELAY + 1)

Histories ==
    {h \in UNION {[1..n -> HistoryCommands] : n \in 1..MaxOrders} :
        ReplayOk(EmptyDb, h, 0)}

\* the outbox tables the relay can be started on. The relay treats every
\* key alike, so the orders are those of one user.
RelayHistories ==
    {h \in UNION {[1..n -> HistoryCommands] : n \in 1..MaxOutboxRows} :
        /\ ReplayOk(EmptyDb, h, 0)
        /\ \A i \in DOMAIN h : h[i].user_id # "u2"}

(***************************************************************************)
(* The outbox relay worker: workers/outbox_worker.py                       *)
(***************************************************************************)
\* SELECT ... WHERE published = false ORDER BY created_at ASC LIMIT n
\* FOR UPDATE SKIP LOCKED: the rows a select may return, in order
SelectUnpublished(ob, skipped, n) ==
    LET avail == {i \in DOMAIN ob : ~ob[i].published /\ i \notin skipped}
        k == Min(n, Cardinality(avail))
    IN {s \in [1..k -> avail] :
          /\ \A i, j \in 1..k : i < j =>
                /\ s[i] # s[j]
                /\ ob[s[i]].created_at <= ob[s[j]].created_at
          /\ \A r \in avail \ Range(s) : \A i \in 1..k :
                ob[s[i]].created_at <= ob[r].created_at}

\* Python values: None, a str, and the AttributeError of a missing method
None == [type |-> "NoneType", value |-> ""]
str(v) == [type |-> "str", value |-> v]
AttributeError == [type |-> "AttributeError", value |-> ""]

\* a message without a traceparent header
NoHeader == [version |-> "none", trace_id |-> NULL]

\* lines 58-61 and 111-121: the loop of process_outbox_events goes on while
\* the shutdown flag is not set; a cycle opens a session and selects a
\* batch; the rows are locked
publish_pending_events_select(w) ==
    /\ w \in relayReplicas
    /\ relayPc[w] = "idle"
    /\ ~shutdown_flag[w]
    /\ \E s \in SelectUnpublished(outbox,
                    UNION {rowLocks[v] : v \in Workers \ {w}}, BatchSize) :
          /\ s # <<>>
          /\ relayBatch' = [relayBatch EXCEPT ![w] = s]
          /\ rowLocks' = [rowLocks EXCEPT ![w] = Range(s)]
    /\ relayPc' = [relayPc EXCEPT ![w] = "row"]
    /\ UNCHANGED <<now, faults, orders, outbox, bus, relayReplicas,
                   procVars, apiVars, conVars>>

\* lines 123-141: the loop reads the first row of the batch; event.trace_id
\* at line 130 raises AttributeError before the try of line 143. The
\* exception leaves the session block, which rolls the transaction back and
\* releases the locks, and publish_pending_events; the loop of
\* process_outbox_events logs it and sleeps (lines 73-80)
publish_pending_events_raises(w) ==
    /\ relayPc[w] = "row"
    /\ getattr_raises("trace_id")
    /\ relayBatch' = [relayBatch EXCEPT ![w] = <<>>]
    /\ rowLocks' = [rowLocks EXCEPT ![w] = {}]
    /\ relayPc' = [relayPc EXCEPT ![w] = "idle"]
    /\ UNCHANGED <<now, faults, orders, outbox, bus, relayReplicas,
                   procVars, apiVars, conVars>>

\* the worker process is killed in mid-cycle and started again: its open
\* transaction is rolled back by the database
outbox_worker_killed(w) ==
    /\ relayPc[w] # "idle"
    /\ faults < MaxFaults
    /\ faults' = faults + 1
    /\ relayPc' = [relayPc EXCEPT ![w] = "idle"]
    /\ relayBatch' = [relayBatch EXCEPT ![w] = <<>>]
    /\ rowLocks' = [rowLocks EXCEPT ![w] = {}]
    /\ UNCHANGED <<now, orders, outbox, bus, relayReplicas,
                   procVars, apiVars, conVars>>

\* lines 43-47, signal_handler: SIGINT or SIGTERM sets the shutdown flag of
\* the worker process
signal_handler(w) ==
    /\ w \in relayReplicas
    /\ relayPc[w] \notin {"stopping", "stopped"}
    /\ ~shutdown_flag[w]
    /\ shutdown_flag' = [shutdown_flag EXCEPT ![w] = TRUE]
    /\ UNCHANGED <<now, faults, orders, outbox, bus, relayVars, procVars, apiVars,
                   header, context, traceparent, health, lifespan, unitVars, store,
                   userLog, userEvent, conPos, conCommitted, conPc, conBatch,
                   processed, userCache, duplicates, handled>>

\* a loop that is left wherever the worker is when the flag is set
process_outbox_events_exit_at_once(w) ==
    /\ w \in relayReplicas
    /\ relayPc[w] \notin {"stopping", "stopped"}
    /\ shutdown_flag[w]
    /\ relayPc' = [relayPc EXCEPT ![w] = "stopping"]
    /\ UNCHANGED <<now, faults, orders, outbox, bus, relayReplicas, relayBatch,
                   rowLocks, procVars, apiVars, conVars>>

\* line 58: the flag is read between two cycles (after
\* publish_pending_events returned or raised, and the sleep of line 70 or
\* 79); when it is set the loop is left for the finally of line 84
process_outbox_events_exit(w) ==
    /\ w \in relayReplicas
    /\ relayPc[w] = "idle"
    /\ shutdown_flag[w]
    /\ relayPc' = [relayPc EXCEPT ![w] = "stopping"]
    /\ UNCHANGED <<now, faults, orders, outbox, bus, relayReplicas, relayBatch,
                   rowLocks, procVars, apiVars, conVars>>

\* lines 84-86 and core/kafka.py lines 49-53: kafka_producer.stop() in the
\* finally; process_outbox_events returns and main ends (lines 281-292)
kafka_producer_stop(w) ==
    /\ relayPc[w] = "stopping"
    /\ relayPc' = [relayPc EXCEPT ![w] = "stopped"]
    /\ UNCHANGED <<now, faults, orders, outbox, bus, relayReplicas, relayBatch,
                   rowLocks, procVars, apiVars, conVars>>

\* the steps of a worker that is shut down
ShutdownStep(w) ==
    \/ process_outbox_events_exit(w)
    \/ kafka_producer_stop(w)

RelayStep(w) ==
    \/ publish_pending_events_select(w)
    \/ publish_pending_events_raises(w)

(***************************************************************************)
(* The clock.                                                              *)
(***************************************************************************)
TickSteps == {ORDER_CONFIRM_DELAY + 1, ORDER_SHIP_DELAY + 1}

TickTo(limit) ==
    /\ \E d \in TickSteps :
          /\ now + d <= limit
          /\ now' = now + d
    /\ UNCHANGED <<faults, orders, outbox, bus, relayVars, procVars,
                   apiVars, conVars>>

Tick == TickTo(MaxTime)

(***************************************************************************)
(* The order API: api/routes/order.py create_order                         *)
(***************************************************************************)
\* core/tracing.py lines 36-41: the three context variables of a task, None
\* by default
Tasks == Replicas \cup Requests \cup {"consumer"}
NoIds == [trace_id |-> NULL, parent_span_id |-> NULL]

\* lines 226-245, set_trace_context: trace_id and span_id are set, and
\* parent_span_id only when the context has one
set_trace_context(ids, trace_id, parent_span_id) ==
    [trace_id |-> trace_id,
     parent_span_id |-> IF parent_span_id # NULL THEN parent_span_id
                        ELSE ids.parent_span_id]

\* a clear that leaves the variables as they are
clear_trace_context_kept(ids) == ids

\* lines 276-287, clear_trace_context: the three variables are set to None
clear_trace_context(ids) == NoIds

\* the store of a task changes and no other does
StoreOf(task, ids) == store' = [store EXCEPT ![task] = ids]

Staged == {r \in Requests : apiPc[r] = "staged"}

\* middleware/tracing_middleware.py lines 95-146: a request without a
\* traceparent header starts a trace, which the order it creates carries
RequestTrace == generate_trace_id(Cardinality(DOMAIN orders) + 1)

\* what the read of the cache entry user:{user_id} gives: no entry, an entry
\* with a status, or an exception (the read fails or the entry does not parse)
CacheReads(user_id) ==
    {"error"} \cup (IF user_id \in userCache THEN {"active", "inactive"} ELSE {"miss"})

\* what the directory replies: a user with a status, no user, or an exception
DirectoryReplies == {"active", "inactive", "not_found", "error"}

\* a validation that does not look at the status of a cached user
validate_user_any_status(user_id, cached, directory) ==
    IF cached = "error" THEN None
    ELSE IF cached # "miss" THEN str(user_id)
    ELSE IF directory = "active" THEN str(user_id) ELSE None

\* services/user_service.py validate_user (lines 50-170): the cache first,
\* the directory on a miss; the user when it is active, None when it is not
\* found, not active, or anything raised (_fetch_from_user_service returns
\* None on an exception of the directory)
validate_user(user_id, cached, directory) ==
    IF cached = "error" THEN None
    ELSE IF cached # "miss"
         THEN (IF cached = "active" THEN str(user_id) ELSE None)
         ELSE IF directory = "active" THEN str(user_id) ELSE None

\* lines 58-110: the user is validated; without a user the request is
\* rejected with 404 (lines 60-69); with one, the order (created_at = now)
\* and its order.created event are added to the session of the request. A
\* user fetched from the directory is written to the cache
\* (user_service.py lines 127-142), an update that may fail without effect.
create_order_stage(r, user_id, cached, directory, cache_written) ==
    /\ apiPc[r] = "idle"
    /\ Cardinality(DOMAIN orders) + Cardinality(Staged) < MaxOrders
    /\ cached \in CacheReads(user_id)
    /\ cached # "miss" => directory = "none"
    /\ cached = "miss" => directory \in DirectoryReplies
    /\ apiPc' = [apiPc EXCEPT ![r] =
                    IF validate_user(user_id, cached, directory) = None
                    THEN "rejected" ELSE "staged"]
    /\ apiOrder' = [apiOrder EXCEPT ![r] =
                       [user_id |-> user_id,
                        created_at |-> IF validate_user(user_id, cached, directory) = None
                                       THEN NULL ELSE now,
                        cached |-> cached, directory |-> directory]]
    /\ userCache' = IF /\ cached = "miss"
                       /\ validate_user(user_id, cached, directory) # None
                       /\ cache_written
                    THEN userCache \cup {user_id} ELSE userCache
    /\ StoreOf(r, set_trace_context(store[r], RequestTrace, NULL))
    /\ UNCHANGED <<now, faults, orders, outbox, bus, relayVars, procVars,
                   parseVars, userLog, userEvent, conPos, conCommitted, conPc, conBatch,
                   processed, duplicates, handled>>

\* lines 66-69: HTTPException(status_code=404) ends the request; the session
\* of the request holds nothing and is closed
create_order_rejected(r) ==
    /\ apiPc[r] = "rejected"
    /\ apiPc' = [apiPc EXCEPT ![r] = "idle"]
    /\ apiOrder' = [apiOrder EXCEPT ![r] = NoOrder]
    /\ StoreOf(r, clear_trace_context(store[r]))
    /\ UNCHANGED <<now, faults, orders, outbox, bus, relayVars, procVars, conState>>

\* line 113: the single commit of order and outbox row; when it raises, or
\* the request dies before it, the session is closed and nothing is written
create_order(r, committed) ==
    /\ apiPc[r] = "staged"
    /\ IF committed
       THEN LET db == create_order_commit([orders |-> orders, outbox |-> outbox],
                          Cardinality(DOMAIN orders) + 1,
                          apiOrder[r].user_id, apiOrder[r].created_at)
            IN /\ orders' = db.orders
               /\ outbox' = db.outbox
               /\ UNCHANGED faults
       ELSE /\ faults < MaxFaults
            /\ faults' = faults + 1
            /\ UNCHANGED <<orders, outbox>>
    /\ apiPc' = [apiPc EXCEPT ![r] = "idle"]
    /\ apiOrder' = [apiOrder EXCEPT ![r] = NoOrder]
    /\ StoreOf(r, clear_trace_context(store[r]))
    /\ UNCHANGED <<now, bus, relayVars, procVars, conState>>

\* a readiness probe that stops at the first failing dependency
readiness_first_failure(database, ping) ==
    /\ health' =
          [database |-> database, redis |-> ping,
           status_code |-> IF database = "ok" /\ ping = "alive" THEN 200 ELSE 503,
           status |-> IF database = "ok" /\ ping = "alive" THEN "ready" ELSE "not ready",
           checks |-> [database |-> IF database = "ok" THEN "connected" ELSE "error",
                       redis |-> IF database # "ok" THEN "absent"
                                 ELSE IF ping = "alive" THEN "connected"
                                 ELSE IF ping = "dead" THEN "disconnected"
                                 ELSE "error"]]
    /\ UNCHANGED <<now, faults, orders, outbox, bus, relayVars, procVars, apiVars,
                   header, context, traceparent, lifespan, shutdown_flag, store, unitVars,
                   userLog, userEvent, conPos, conCommitted, conPc, conBatch,
                   processed, userCache, duplicates, handled>>

\* api/main.py lines 16-45, readiness: SELECT 1 succeeds or raises (lines
\* 22-27), then redis.ping() answers True or False or raises (lines 30-39);
\* 503 and "not ready" unless both passed (lines 41-43)
readiness(database, ping) ==
    /\ health' =
          [database |-> database, redis |-> ping,
           status_code |-> IF database = "ok" /\ ping = "alive" THEN 200 ELSE 503,
           status |-> IF database = "ok" /\ ping = "alive" THEN "ready" ELSE "not ready",
           checks |-> [database |-> IF database = "ok" THEN "connected" ELSE "error",
                       redis |-> IF ping = "alive" THEN "connected"
                                 ELSE IF ping = "dead" THEN "disconnected"
                                 ELSE "error"]]
    /\ UNCHANGED <<now, faults, orders, outbox, bus, relayVars, procVars, apiVars,
                   header, context, traceparent, lifespan, shutdown_flag, store, unitVars,
                   userLog, userEvent, conPos, conCommitted, conPc, conBatch,
                   processed, userCache, duplicates, handled>>

\* an await that returns while the task is still being cancelled
awaited_at_once(task) == task \in {"cancelling", "cancelled", "failed"}

\* main.py lines 76-79 and 85-88: await task returns when the task is done
awaited(task) == task \in {"cancelled", "failed"}

\* a background task ends: the consumer or the processor raises out of its
\* loop (user_consumer.py lines 44-51), or the CancelledError of a cancelled
\* task reaches its top (lines 41-43, order_processor.py lines 53-55)
background_task_done(task) ==
    /\ lifespan[task] \in {"running", "cancelling"}
    /\ lifespan' = [lifespan EXCEPT ![task] =
                       IF @ = "running" THEN "failed" ELSE "cancelled"]
    /\ UNCHANGED <<now, faults, orders, outbox, bus, relayVars, procVars, apiVars,
                   header, context, traceparent, health, shutdown_flag, store, unitVars,
                   userLog, userEvent, conPos, conCommitted, conPc, conBatch,
                   processed, userCache, duplicates, handled>>

\* main.py lines 68-96, lifespan after the yield: each task that is not done
\* is cancelled and awaited (lines 74-88), then the bus consumer, the bus
\* producer and the fast-store client are closed (lines 90-92); a close
\* that raises ends the shutdown (lines 95-96)
lifespan_shutdown(raised) ==
    /\ lifespan.pc \notin {"complete", "error"}
    /\ lifespan.pc = "await_consumer" => awaited(lifespan.consumer_task)
    /\ lifespan.pc = "await_processor" => awaited(lifespan.processor_task)
    /\ raised => lifespan.pc \in {"stop_consumer", "stop_producer", "disconnect"}
    /\ lifespan' =
          IF raised THEN [lifespan EXCEPT !.pc = "error"]
          ELSE CASE lifespan.pc = "serving" -> [lifespan EXCEPT !.pc = "consumer"]
            [] lifespan.pc = "consumer" ->
                 IF lifespan.consumer_task = "running"
                 THEN [lifespan EXCEPT !.consumer_task = "cancelling",
                                       !.pc = "await_consumer"]
                 ELSE [lifespan EXCEPT !.pc = "processor"]
            [] lifespan.pc = "await_consumer" -> [lifespan EXCEPT !.pc = "processor"]
            [] lifespan.pc = "processor" ->
                 IF lifespan.processor_task = "running"
                 THEN [lifespan EXCEPT !.processor_task = "cancelling",
                                       !.pc = "await_processor"]
                 ELSE [lifespan EXCEPT !.pc = "stop_consumer"]
            [] lifespan.pc = "await_processor" -> [lifespan EXCEPT !.pc = "stop_consumer"]
            [] lifespan.pc = "stop_consumer" ->
                 [lifespan EXCEPT !.closed = @ \cup {"kafka_consumer"},
                                  !.pc = "stop_producer"]
            [] lifespan.pc = "stop_producer" ->
                 [lifespan EXCEPT !.closed = @ \cup {"kafka_producer"},
                                  !.pc = "disconnect"]
            [] lifespan.pc = "disconnect" ->
                 [lifespan EXCEPT !.closed = @ \cup {"redis_client"},
                                  !.pc = "complete"]
    /\ UNCHANGED <<now, faults, orders, outbox, bus, relayVars, procVars, apiVars,
                   header, context, traceparent, health, shutdown_flag, store, unitVars,
                   userLog, userEvent, conPos, conCommitted, conPc, conBatch,
                   processed, userCache, duplicates, handled>>

(***************************************************************************)
(* The lifecycle processor: processors/order_processor.py                  *)
(***************************************************************************)
OrderLockedByOther(p, o) == \E q \in Replicas \ {p} : o \in orderLocks[q]

Orderings(S) ==
    {s \in [1..Cardinality(S) -> S] : \A i, j \in 1..Cardinality(S) :
        i # j => s[i] # s[j]}

\* lines 72-81: pending orders older than the cutoff, FOR UPDATE SKIP LOCKED
EligiblePending(p) ==
    {o \in DOMAIN orders :
        /\ orders[o].status = "pending"
        /\ orders[o].created_at < now - ORDER_CONFIRM_DELAY
        /\ ~OrderLockedByOther(p, o)}

\* lines 188-199: confirmed orders older than the cutoff, FOR UPDATE SKIP LOCKED
EligibleConfirmed(p) ==
    {o \in DOMAIN orders :
        /\ orders[o].status = "confirmed"
        /\ orders[o].confirmed_at < now - ORDER_SHIP_DELAY
        /\ ~OrderLockedByOther(p, o)}

\* the select of one pass: the selected rows are locked and loaded; a pass
\* that selects nothing returns
ProcSelect(p, eligible, first, after) ==
    /\ \E s \in Orderings(eligible) :
          procBatch' = [procBatch EXCEPT ![p] = s]
    /\ orderLocks' = [orderLocks EXCEPT ![p] = eligible]
    /\ procLoaded' = [procLoaded EXCEPT ![p] =
                         IF eligible = {} THEN "none" ELSE first]
    /\ procPc' = [procPc EXCEPT ![p] = after]

\* a loop that ends with the order it has worked on
ProcNextNone(p, load, after) ==
    /\ procBatch' = [procBatch EXCEPT ![p] = <<>>]
    /\ procLoaded' = [procLoaded EXCEPT ![p] = "none"]
    /\ orderLocks' = [orderLocks EXCEPT ![p] = {}]
    /\ procPc' = [procPc EXCEPT ![p] = after]

\* the loop goes on to the next order of the batch, whose object has expired
ProcNext(p, load, after) ==
    /\ procBatch' = [procBatch EXCEPT ![p] = Tail(@)]
    /\ procLoaded' = [procLoaded EXCEPT ![p] = "none"]
    /\ orderLocks' = [orderLocks EXCEPT ![p] = {}]
    /\ procPc' = [procPc EXCEPT ![p] =
                     IF Tail(procBatch[p]) = <<>> THEN after ELSE load]

\* lines 101-121 and 217-234: the context of the order is stored, unless
\* reading the original event raised before set_trace_context
ProcSetContext(p, o) ==
    IF original_event_raises(outbox, o, orders[o].user_id)
    THEN UNCHANGED store
    ELSE StoreOf(p, set_trace_context(store[p],
                       ProcessorTrace(outbox, o, orders[o].user_id),
                       ProcessorParent(outbox, o, orders[o].user_id)))

\* lines 71-81
process_pending_orders_select(p) ==
    /\ p \in procReplicas
    /\ procPc[p] = "process_pending_orders"
    /\ ProcSelect(p, EligiblePending(p), "pending",
                  IF EligiblePending(p) = {} THEN "process_confirmed_orders"
                  ELSE "confirm_commit")
    /\ IF EligiblePending(p) = {} THEN UNCHANGED store
       ELSE ProcSetContext(p, Head(procBatch'[p]))
    /\ UNCHANGED <<now, faults, orders, outbox, bus, relayVars, procReplicas,
                   apiVars, conState>>

\* lines 88-99: the next order's attributes are read; the object expired
\* with the previous commit or rollback, so the row is loaded again
process_pending_orders_load(p) ==
    /\ procPc[p] = "confirm_load"
    /\ procLoaded' = [procLoaded EXCEPT ![p] = orders[Head(procBatch[p])].status]
    /\ procPc' = [procPc EXCEPT ![p] = "confirm_commit"]
    /\ ProcSetContext(p, Head(procBatch[p]))
    /\ UNCHANGED <<now, faults, orders, outbox, bus, relayVars, procReplicas,
                   procBatch, orderLocks, apiVars, conState>>

\* lines 101-176: when reading the original event raised, or the commit
\* fails, the except of line 165 rolls the transaction back; otherwise the
\* order is updated, the order.confirmed event is created and both are
\* committed
process_pending_orders_commit(p, committed) ==
    /\ procPc[p] = "confirm_commit"
    /\ IF original_event_raises(outbox, Head(procBatch[p]),
                               orders[Head(procBatch[p])].user_id)
       THEN /\ ~committed
            /\ UNCHANGED <<faults, orders, outbox>>
       ELSE /\ ~OrderLockedByOther(p, Head(procBatch[p]))
            /\ IF committed
               THEN LET db == confirm_writes([orders |-> orders, outbox |-> outbox],
                                  Head(procBatch[p]), procLoaded[p], now)
                    IN /\ orders' = db.orders
                       /\ outbox' = db.outbox
                       /\ UNCHANGED faults
               ELSE /\ faults < MaxFaults
                    /\ faults' = faults + 1
                    /\ UNCHANGED <<orders, outbox>>
    /\ ProcNext(p, "confirm_load", "process_confirmed_orders")
    /\ StoreOf(p, clear_trace_context(store[p]))
    /\ UNCHANGED <<now, bus, relayVars, procReplicas, apiVars, conState>>

\* lines 187-199: the select of the confirmed orders. No order is ever
\* confirmed, so the pass selects nothing and returns
process_confirmed_orders_select(p) ==
    /\ p \in procReplicas
    /\ procPc[p] = "process_confirmed_orders"
    /\ ProcSelect(p, EligibleConfirmed(p), "confirmed",
                  IF EligibleConfirmed(p) = {} THEN "process_pending_orders"
                  ELSE "ship_commit")
    /\ IF EligibleConfirmed(p) = {} THEN UNCHANGED store
       ELSE ProcSetContext(p, Head(procBatch'[p]))
    /\ UNCHANGED <<now, faults, orders, outbox, bus, relayVars, procReplicas,
                   apiVars, conState>>

\* the process of a replica is killed in mid-pass and started again; the
\* database rolls its open transaction back
order_processor_killed(p) ==
    /\ procPc[p] \notin {"process_pending_orders", "process_confirmed_orders"}
    /\ faults < MaxFaults
    /\ faults' = faults + 1
    /\ procPc' = [procPc EXCEPT ![p] = "process_pending_orders"]
    /\ procBatch' = [procBatch EXCEPT ![p] = <<>>]
    /\ procLoaded' = [procLoaded EXCEPT ![p] = "none"]
    /\ orderLocks' = [orderLocks EXCEPT ![p] = {}]
    /\ StoreOf(p, NoIds)
    /\ UNCHANGED <<now, orders, outbox, bus, relayVars, procReplicas,
                   apiVars, conState>>

ProcStep(p) ==
    \/ process_pending_orders_select(p)
    \/ process_pending_orders_load(p)
    \/ \E committed \in BOOLEAN : process_pending_orders_commit(p, committed)
    \/ process_confirmed_orders_select(p)

(***************************************************************************)
(* The user-event consumer: consumers/user_consumer.py                     *)
(***************************************************************************)
\* the message being handled: the one before the consumer's position
CurId == userLog[conPos - 1]
CurEvent == userEvent[CurId]

\* core/kafka.py lines 58-60: the parameters publish_event declares
PublishEventParameters == {"topic", "event_type", "data", "key"}

\* consumers/user_consumer.py lines 209-215: the keywords it is called with
PublishEventKeywords == {"topic", "event_type", "data", "key", "trace_context"}

\* a call with a keyword the function does not declare raises TypeError on
\* each of the three attempts, and the retry wrapper raises RetryError
publish_event_raises == ~(PublishEventKeywords \subseteq PublishEventParameters)

\* an existence check that finds no key
exists_nothing(keys, key) == FALSE

\* core/redis.py exists: whether the key is stored
exists(keys, key) == key \in keys

\* a payload without the field event_id or event_type, the bytes of a
\* traceparent header that are not UTF-8, and a user id of a payload whose
\* data fail the validation of UserCreatedData, UserUpdatedData, UserDeletedData
MissingField == "missing"
Undecodable == -2
InvalidData == "invalid"

\* lines 62-78 of handle_message stand before the try of line 80:
\* event["event_id"] and event["event_type"] raise KeyError (lines 63-64), and
\* value.decode("utf-8") in extract_trace_context_from_kafka_headers raises
\* UnicodeDecodeError (core/tracing.py line 379, called at line 69)
handle_message_raises(event) ==
    \/ event.event_type = MissingField
    \/ event.trace_id = Undecodable

\* lines 151, 165, 179: UserCreatedData(**event["data"]) and the like raise
ValidationError(event) == event.user_id = InvalidData

\* the except branch of handle_message for a payload that fails validation
\* (lines 126-145): logged, not committed, and the loop takes the next message
ConInvalid ==
    /\ conPc' = "idle"
    /\ conBatch' = <<>>
    /\ UNCHANGED faults

\* lines 142-145: the finally of handle_message clears the store on every
\* way out of the try block
ConStore(ids) ==
    StoreOf("consumer", IF conPc' = "idle" THEN clear_trace_context(ids) ELSE ids)

\* lines 69-73: the context of the traceparent header is stored when the
\* message has one
ConSetContext(event) ==
    IF event.trace_id # NULL
    THEN set_trace_context(store["consumer"], event.trace_id, event.trace_id)
    ELSE store["consumer"]

\* the except branch of handle_message (lines 126-145): nothing is committed
ConFail ==
    /\ faults < MaxFaults
    /\ faults' = faults + 1
    /\ conPc' = "idle"
    /\ conBatch' = <<>>

\* core/kafka.py consume_messages: the next message of the partition
consume_messages ==
    /\ conPc = "idle"
    /\ conPos <= Len(userLog)
    /\ conPos' = conPos + 1
    /\ conPc' = "check"
    /\ UNCHANGED <<now, faults, orders, outbox, bus, relayVars, procVars, apiVars,
                   traceVars, userLog, userEvent, conCommitted, conBatch, processed,
                   userCache, duplicates, handled>>

\* lines 62-96: the fields of the payload and the headers are read; an
\* exception there leaves handle_message and ends the loop of start_consumer
\* (lines 37-51), whose task main.py creates once. Then the idempotency
\* check; a processed event is counted as a duplicate and the position is
\* committed
handle_message(ok) ==
    /\ conPc = "check"
    /\ IF handle_message_raises(CurEvent)
       THEN /\ conPc' = "crashed"
            /\ UNCHANGED <<faults, conBatch, duplicates, conCommitted>>
       ELSE IF ~ok
       THEN /\ ConFail
            /\ UNCHANGED <<duplicates, conCommitted>>
       ELSE /\ IF exists(processed, CurId)
               THEN /\ duplicates' = duplicates + 1
                    /\ conCommitted' = conPos
                    /\ conPc' = "idle"
               ELSE /\ conPc' = "handle"
                    /\ UNCHANGED <<duplicates, conCommitted>>
            /\ UNCHANGED <<faults, conBatch>>
    /\ IF handle_message_raises(CurEvent) THEN UNCHANGED store
       ELSE ConStore(ConSetContext(CurEvent))
    /\ UNCHANGED <<now, orders, outbox, bus, relayVars, procVars, apiVars,
                   parseVars, userLog, userEvent, conPos, processed, userCache, handled>>

\* lines 148-173: handle_user_created and handle_user_updated write the cache
handle_user_created(ok) ==
    /\ conPc = "handle"
    /\ CurEvent.event_type \in {"user.created", "user.updated"}
    /\ IF ValidationError(CurEvent)
       THEN /\ ConInvalid
            /\ UNCHANGED <<userCache, handled>>
       ELSE IF ok
       THEN /\ userCache' = userCache \cup {CurEvent.user_id}
            /\ handled' = [handled EXCEPT ![CurId] = @ + 1]
            /\ conPc' = "mark"
            /\ UNCHANGED <<faults, conBatch>>
       ELSE /\ ConFail
            /\ UNCHANGED <<userCache, handled>>
    /\ ConStore(store["consumer"])
    /\ UNCHANGED <<now, orders, outbox, bus, relayVars, procVars, apiVars,
                   parseVars, userLog, userEvent, conPos, conCommitted, processed, duplicates>>

\* lines 182-187: the user's pending and confirmed orders, read without a lock
CancellableOrders(user_id) ==
    {o \in DOMAIN orders : /\ orders[o].user_id = user_id
                           /\ orders[o].status \in {"pending", "confirmed"}}

handle_user_deleted_select(ok) ==
    /\ conPc = "handle"
    /\ CurEvent.event_type = "user.deleted"
    /\ IF ValidationError(CurEvent)
       THEN ConInvalid
       ELSE IF ok
       THEN /\ \E s \in Orderings(CancellableOrders(CurEvent.user_id)) :
                  conBatch' = s
            /\ conPc' = IF CancellableOrders(CurEvent.user_id) = {}
                        THEN "cleanup" ELSE "cancel"
            /\ UNCHANGED faults
       ELSE ConFail
    /\ ConStore(store["consumer"])
    /\ UNCHANGED <<now, orders, outbox, bus, relayVars, procVars, apiVars,
                   parseVars, userLog, userEvent, conPos, conCommitted, processed,
                   userCache, duplicates, handled>>

\* the order.cancelled message of the direct publish
CancelMessage(o, user_id) ==
    [event_id |-> 0, event_type |-> "order.cancelled", topic |-> "order.cancelled",
     key |-> user_id, order_id |-> o, traceparent |-> NoHeader, by |-> "consumer"]

\* a loop body that writes the status whether or not the publish raised
cancel_order_unconditionally(raised, o, user_id) ==
    [bus |-> IF raised THEN bus ELSE Append(bus, CancelMessage(o, user_id)),
     orders |-> [orders EXCEPT ![o].status = "cancelled"]]

\* a loop body whose publish is accepted whatever the call was given
cancel_order_published(raised, o, user_id) ==
    [bus |-> Append(bus, CancelMessage(o, user_id)),
     orders |-> [orders EXCEPT ![o].status = "cancelled"]]

\* lines 196-239: the body of the loop for one order: the publish comes
\* first (209-215); when it raises, the except branch rolls back and nothing
\* is written (229-239); otherwise the status is set and committed (218-221)
cancel_order(raised, o, user_id) ==
    IF raised
    THEN [bus |-> bus, orders |-> orders]
    ELSE [bus |-> Append(bus, CancelMessage(o, user_id)),
          orders |-> [orders EXCEPT ![o].status = "cancelled"]]

\* lines 195-239: one order of the loop; an exception is caught and the loop
\* goes on with the next order
handle_user_deleted_cancel ==
    /\ conPc = "cancel"
    /\ publish_event_raises \/ \A p \in Replicas : Head(conBatch) \notin orderLocks[p]
    /\ bus' = cancel_order(publish_event_raises, Head(conBatch), CurEvent.user_id).bus
    /\ orders' = cancel_order(publish_event_raises, Head(conBatch), CurEvent.user_id).orders
    /\ conBatch' = Tail(conBatch)
    /\ conPc' = IF Tail(conBatch) = <<>> THEN "cleanup" ELSE "cancel"
    /\ UNCHANGED <<now, faults, outbox, relayVars, procVars, apiVars,
                   traceVars, userLog, userEvent, conPos, conCommitted, processed,
                   userCache, duplicates, handled>>

\* lines 241-243: the cache entry of the user is deleted
handle_user_deleted_cleanup(ok) ==
    /\ conPc = "cleanup"
    /\ IF ok
       THEN /\ userCache' = userCache \ {CurEvent.user_id}
            /\ handled' = [handled EXCEPT ![CurId] = @ + 1]
            /\ conPc' = "mark"
            /\ UNCHANGED <<faults, conBatch>>
       ELSE /\ ConFail
            /\ UNCHANGED <<userCache, handled>>
    /\ ConStore(store["consumer"])
    /\ UNCHANGED <<now, orders, outbox, bus, relayVars, procVars, apiVars,
                   parseVars, userLog, userEvent, conPos, conCommitted, processed, duplicates>>

\* lines 108-109: the processed_event marker is written after the handler
handle_message_mark(ok) ==
    /\ conPc = "mark"
    /\ IF ok
       THEN /\ processed' = processed \cup {CurId}
            /\ conPc' = "commit"
            /\ UNCHANGED <<faults, conBatch>>
       ELSE /\ ConFail
            /\ UNCHANGED processed
    /\ ConStore(store["consumer"])
    /\ UNCHANGED <<now, orders, outbox, bus, relayVars, procVars, apiVars,
                   parseVars, userLog, userEvent, conPos, conCommitted, userCache,
                   duplicates, handled>>

\* lines 111-112 and core/kafka.py lines 162-165: commit() commits the
\* consumer's position, the offset after the last message it was given
handle_message_commit(ok) ==
    /\ conPc = "commit"
    /\ IF ok
       THEN /\ conCommitted' = conPos
            /\ conPc' = "idle"
            /\ UNCHANGED <<faults, conBatch>>
       ELSE /\ ConFail
            /\ UNCHANGED conCommitted
    /\ ConStore(store["consumer"])
    /\ UNCHANGED <<now, orders, outbox, bus, relayVars, procVars, apiVars,
                   parseVars, userLog, userEvent, conPos, processed, userCache,
                   duplicates, handled>>

\* the consumer process stops and starts again: it resumes from the
\* committed offset of its group
consumer_restarted ==
    /\ faults < MaxFaults
    /\ faults' = faults + 1
    /\ conPos' = conCommitted
    /\ conPc' = "idle"
    /\ conBatch' = <<>>
    /\ StoreOf("consumer", NoIds)
    /\ UNCHANGED <<now, orders, outbox, bus, relayVars, procVars, apiVars,
                   parseVars, userLog, userEvent, conCommitted, processed, userCache,
                   duplicates, handled>>

\* core/config.py PROCESSED_EVENT_TTL: a marker expires
processed_event_expired ==
    /\ \E e \in processed : processed' = processed \ {e}
    /\ UNCHANGED <<now, faults, orders, outbox, bus, relayVars, procVars, apiVars,
                   traceVars, userLog, userEvent, conPos, conCommitted, conPc, conBatch,
                   userCache, duplicates, handled>>

ConsumerStep ==
    \/ consume_messages
    \/ \E ok \in BOOLEAN : handle_message(ok)
    \/ \E ok \in BOOLEAN : handle_user_created(ok)
    \/ \E ok \in BOOLEAN : handle_user_deleted_select(ok)
    \/ handle_user_deleted_cancel
    \/ \E ok \in BOOLEAN : handle_user_deleted_cleanup(ok)
    \/ \E ok \in BOOLEAN : handle_message_mark(ok)
    \/ \E ok \in BOOLEAN : handle_message_commit(ok)

(***************************************************************************)
(* W3C trace context: core/tracing.py. A string is a sequence of           *)
(* characters; a header value is the sequence of the parts that            *)
(* header_value.split("-") gives. The ids are TraceIdLen and SpanIdLen     *)
(* characters long where the source has 32 and 16.                         *)
(***************************************************************************)
\* the characters of the model: two hex digits, the underscore, a letter
\* that is no hex digit
HexDigits == {"0", "1"}
Chars == HexDigits \cup {"_", "g"}

Strings(alphabet, lo, hi) == UNION {[1..n -> alphabet] : n \in lo..hi}

\* "0" * n
Zeros(n) == [i \in 1..n |-> "0"]

\* Python int(s, 16) raises ValueError: the digits may be grouped by single
\* underscores, so that int("1_1", 16) is a number and int("_1", 16),
\* int("1__1", 16), int("", 16) and int("1g", 16) are not
int_raises(x) ==
    \/ x = <<>>
    \/ \E i \in DOMAIN x : x[i] \notin HexDigits \cup {"_"}
    \/ x[1] = "_"
    \/ x[Len(x)] = "_"
    \/ \E i \in 1..(Len(x) - 1) : x[i] = "_" /\ x[i + 1] = "_"

\* (int(trace_flags, 16) & 0x01) == 0x01: the last digit is odd
Sampled(trace_flags) == trace_flags[Len(trace_flags)] = "1"

\* the span ids generate_span_id returns
SpanIds == {<<"1", "1">>, <<"1", "0">>}

\* the result None of a parse, and a TraceContext
NoContext ==
    [ok |-> FALSE, trace_id |-> <<>>, span_id |-> <<>>,
     parent_span_id |-> <<>>, sampled |-> FALSE]

TraceContext(trace_id, span_id, parent_span_id, sampled) ==
    [ok |-> TRUE, trace_id |-> trace_id, span_id |-> span_id,
     parent_span_id |-> parent_span_id, sampled |-> sampled]

\* a parse that keeps the span id of the header as the span id of the context
from_traceparent_header_same_span(parts, new_span_id) ==
    IF Len(parts) # 4 THEN NoContext
    ELSE IF parts[1] # <<"0", "0">> THEN NoContext
    ELSE IF Len(parts[2]) # TraceIdLen \/ parts[2] = Zeros(TraceIdLen) THEN NoContext
    ELSE IF Len(parts[3]) # SpanIdLen \/ parts[3] = Zeros(SpanIdLen) THEN NoContext
    ELSE IF int_raises(parts[2]) \/ int_raises(parts[3]) \/ int_raises(parts[4])
    THEN NoContext
    ELSE TraceContext(parts[2], parts[3], new_span_id, Sampled(parts[4]))

\* tracing.py lines 87-151, from_traceparent_header: four parts, version 00,
\* the lengths and the all-zero ids (lines 109-127), int(..., 16) of both
\* ids and of the flags, whose ValueError is caught (lines 130-134, 149-151)
from_traceparent_header(parts, new_span_id) ==
    IF Len(parts) # 4 THEN NoContext
    ELSE IF parts[1] # <<"0", "0">> THEN NoContext
    ELSE IF Len(parts[2]) # TraceIdLen \/ parts[2] = Zeros(TraceIdLen) THEN NoContext
    ELSE IF Len(parts[3]) # SpanIdLen \/ parts[3] = Zeros(SpanIdLen) THEN NoContext
    ELSE IF int_raises(parts[2]) \/ int_raises(parts[3]) \/ int_raises(parts[4])
    THEN NoContext
    ELSE TraceContext(parts[2], new_span_id, parts[3], Sampled(parts[4]))

\* tracing.py lines 73-85, TraceContext.to_traceparent_header:
\* {version}-{trace_id}-{span_id}-{trace_flags}
format_traceparent(ctx) ==
    <<<<"0", "0">>, ctx.trace_id, ctx.span_id,
      IF ctx.sampled THEN <<"0", "1">> ELSE <<"0", "0">>>>

\* the header values parsed: a version, a trace id and a span id of the
\* right length or one character short, flags of one or two characters, and
\* possibly a fifth part
Headers ==
    {<<v, t, p, f>> : v \in {<<"0", "0">>, <<"0", "1">>},
                      t \in Strings(Chars, TraceIdLen - 1, TraceIdLen),
                      p \in Strings(Chars, SpanIdLen - 1, SpanIdLen),
                      f \in Strings({"0", "1", "g"}, 1, 2)}
    \cup {<<v, t, p, f, f>> : v \in {<<"0", "0">>},
                         t \in Strings(HexDigits, TraceIdLen, TraceIdLen),
                         p \in Strings(HexDigits, SpanIdLen, SpanIdLen),
                         f \in Strings(HexDigits, 2, 2)}

\* core/tracing.py lines 36-41: trace_id_var, span_id_var and
\* parent_span_id_var, None by default
NoContextVars ==
    [trace_id_var |-> NULL, span_id_var |-> NULL, parent_span_id_var |-> NULL]

\* no TraceContext (None), read field by field
NoTrace == [trace_id |-> NULL, span_id |-> NULL, parent_span_id |-> NULL]

\* the contexts a task sets: create_trace_context (lines 191-223) with or
\* without a parent span
TraceIds == {1, 2}
Contexts ==
    [trace_id : TraceIds, span_id : TraceIds, parent_span_id : {NULL, 1}]

\* lines 248-273, get_trace_context: None without a trace_id, otherwise the
\* three variables, with a new span id when span_id_var holds none
get_trace_context(cv, new_span_id) ==
    IF cv.trace_id_var = NULL THEN NoTrace
    ELSE [trace_id |-> cv.trace_id_var,
          span_id |-> IF cv.span_id_var # NULL THEN cv.span_id_var ELSE new_span_id,
          parent_span_id |-> cv.parent_span_id_var]

\* lines 226-245: set_trace_context(ctx) on the three variables
set_context(ctx) ==
    /\ passed # ctx
    /\ LET ids == set_trace_context([trace_id |-> contextvars.trace_id_var,
                                     parent_span_id |-> contextvars.parent_span_id_var],
                                    ctx.trace_id, ctx.parent_span_id)
       IN contextvars' = [trace_id_var |-> ids.trace_id,
                          span_id_var |-> ctx.span_id,
                          parent_span_id_var |-> ids.parent_span_id]
    /\ passed' = ctx
    /\ UNCHANGED <<now, faults, orders, outbox, bus, relayVars, procVars, apiVars,
                   header, context, traceparent, health, lifespan, shutdown_flag,
                   session, store, userLog, userEvent, conPos, conCommitted,
                   conPc, conBatch, processed, userCache, duplicates, handled>>

\* lines 276-287: clear_trace_context() on the three variables
clear_context ==
    /\ passed # NoTrace
    /\ LET ids == clear_trace_context([trace_id |-> contextvars.trace_id_var,
                                       parent_span_id |-> contextvars.parent_span_id_var])
       IN contextvars' = [trace_id_var |-> ids.trace_id,
                          span_id_var |-> NULL,
                          parent_span_id_var |-> ids.parent_span_id]
    /\ passed' = NoTrace
    /\ UNCHANGED <<now, faults, orders, outbox, bus, relayVars, procVars, apiVars,
                   header, context, traceparent, health, lifespan, shutdown_flag,
                   session, store, userLog, userEvent, conPos, conCommitted,
                   conPc, conBatch, processed, userCache, duplicates, handled>>

\* lines 174-193: the defaults of the fields that have one
OutboxEventDefaults(event_id, t) ==
    [id |-> event_id, partition_key |-> NoKey, published |-> FALSE,
     published_at |-> NULL, attempts |-> 0, last_error |-> "none",
     created_at |-> t, updated_at |-> t]

\* OutboxEvent(**data), a SQLModel table class: a declared field takes its
\* argument or its default, an argument that names no declared field is
\* not kept
OutboxEventObject(data, defaults) ==
    [f \in OutboxEventFields |-> IF f \in DOMAIN data THEN data[f] ELSE defaults[f]]

\* the value a row of the table has in a column: what the object wrote, NULL
\* for a column the object has no field for
ColumnOf(object, column) ==
    IF column \in DOMAIN object THEN object[column] ELSE NULL

\* services/outbox_service.py lines 68-111, OutboxService.create_event: the
\* current context is read (line 73), the object is built with its three ids
\* among the arguments (lines 88-98) and added to the session of the caller
\* (line 100); nothing is committed
session_create_event(event_type, order_id, partition_key) ==
    /\ Len(outbox) + Len(session) < MaxOutboxRows
    /\ \E new_span_id \in TraceIds :
          LET trace_context == get_trace_context(contextvars, new_span_id)
              event_id == uuid4(outbox \o session)
          IN session' = Append(session,
                 OutboxEventObject(
                     [event_id |-> event_id, event_type |-> event_type,
                      topic |-> event_type, partition_key |-> partition_key,
                      payload |-> order_id,
                      trace_id |-> trace_context.trace_id,
                      span_id |-> trace_context.span_id,
                      parent_span_id |-> trace_context.parent_span_id],
                     OutboxEventDefaults(event_id, now)))
    /\ UNCHANGED <<now, faults, orders, outbox, bus, relayVars, procVars, apiVars,
                   header, context, traceparent, health, lifespan, shutdown_flag,
                   contextvars, passed, store, userLog, userEvent, conPos,
                   conCommitted, conPc, conBatch, processed, userCache,
                   duplicates, handled>>

\* session.commit() of the caller: the objects of the session become rows
session_commit ==
    /\ session # <<>>
    /\ outbox' = outbox \o
          [i \in 1..Len(session) |->
              [OutboxEvent(session[i].event_id, session[i].event_type,
                           session[i].payload, session[i].partition_key,
                           ColumnOf(session[i], "trace_id"), session[i].created_at)
               EXCEPT !.published = session[i].published,
                      !.published_at = session[i].published_at,
                      !.attempts = session[i].attempts]]
    /\ session' = <<>>
    /\ UNCHANGED <<now, faults, orders, bus, relayVars, procVars, apiVars,
                   header, context, traceparent, health, lifespan, shutdown_flag,
                   contextvars, passed, store, userLog, userEvent, conPos,
                   conCommitted, conPc, conBatch, processed, userCache,
                   duplicates, handled>>

\* session.rollback(), or the session is closed without a commit
session_rollback ==
    /\ session # <<>>
    /\ session' = <<>>
    /\ UNCHANGED <<now, faults, orders, outbox, bus, relayVars, procVars, apiVars,
                   header, context, traceparent, health, lifespan, shutdown_flag,
                   contextvars, passed, store, userLog, userEvent, conPos,
                   conCommitted, conPc, conBatch, processed, userCache,
                   duplicates, handled>>

\* the service process before a probe, a shutdown or a signal
ServiceIdle ==
    /\ health = [database |-> "none", redis |-> "none", status_code |-> 0,
                 status |-> "none",
                 checks |-> [database |-> "absent", redis |-> "absent"]]
    /\ lifespan = [pc |-> "serving", consumer_task |-> "running",
                   processor_task |-> "running", closed |-> {}]
    /\ shutdown_flag = [w \in Workers |-> FALSE]
    /\ contextvars = NoContextVars
    /\ passed = NoTrace
    /\ session = <<>>

TracingIdle ==
    /\ header = <<>>
    /\ context = NoContext
    /\ traceparent = <<>>
    /\ store = [t \in Tasks |-> NoIds]
    /\ ServiceIdle

\* a header value is parsed
parse_traceparent ==
    /\ traceparent = <<>>
    /\ ~context.ok
    /\ \E new_span_id \in SpanIds :
          context' = from_traceparent_header(header, new_span_id)
    /\ context'.ok
    /\ UNCHANGED <<now, faults, orders, outbox, bus, relayVars, procVars, apiVars,
                   header, traceparent, serviceVars, store, userLog, userEvent, conPos, conCommitted,
                   conPc, conBatch, processed, userCache, duplicates, handled>>

\* the parsed context is formatted as the header of an outgoing message
send_traceparent ==
    /\ context.ok
    /\ traceparent = <<>>
    /\ traceparent' = format_traceparent(context)
    /\ UNCHANGED <<now, faults, orders, outbox, bus, relayVars, procVars, apiVars,
                   header, context, serviceVars, store, userLog, userEvent, conPos, conCommitted,
                   conPc, conBatch, processed, userCache, duplicates, handled>>

\* the parts of the state the relay specification leaves idle
ProcIdle ==
    /\ procPc = [p \in Replicas |-> "process_pending_orders"]
    /\ procBatch = [p \in Replicas |-> <<>>]
    /\ procLoaded = [p \in Replicas |-> "none"]
    /\ orderLocks = [p \in Replicas |-> {}]

ApiIdle ==
    /\ apiPc = [r \in Requests |-> "idle"]
    /\ apiOrder = [r \in Requests |-> NoOrder]

RelayIdle ==
    /\ relayPc = [w \in Workers |-> "idle"]
    /\ relayBatch = [w \in Workers |-> <<>>]
    /\ rowLocks = [w \in Workers |-> {}]

NoUserEvents ==
    /\ userLog = <<>>
    /\ userEvent = [e \in EventIds |-> UserEvent("user.created", "u1", NULL)]

ConsumerIdle ==
    /\ conPos = 1
    /\ conCommitted = 1
    /\ conPc = "idle"
    /\ conBatch = <<>>
    /\ processed = {}
    /\ userCache = {}
    /\ duplicates = 0
    /\ handled = [e \in EventIds |-> 0]
    /\ TracingIdle

InitRelay ==
    /\ \E h \in RelayHistories :
          /\ orders = Replay(EmptyDb, h, 0).orders
          /\ outbox = Replay(EmptyDb, h, 0).outbox
          /\ now = Len(h) * (ORDER_SHIP_DELAY + 1)
    /\ faults = 0
    /\ bus = <<>>
    /\ relayReplicas \in {{"w1"}, Workers}
    /\ procReplicas = {}
    /\ RelayIdle /\ ProcIdle /\ ApiIdle /\ NoUserEvents /\ ConsumerIdle

\* the relay workers, with the API committing orders while they run
NextRelay ==
    \/ \E w \in Workers : RelayStep(w)
    \/ \E w \in Workers : outbox_worker_killed(w)
    \/ \E r \in Requests, u \in Users, cached \in {"miss", "active"},
          directory \in {"none", "active"} :
             create_order_stage(r, u, cached, directory, TRUE)
    \/ \E r \in Requests, committed \in BOOLEAN : create_order(r, committed)

(***************************************************************************)
(* The order service: the API, the lifecycle processor replicas and the    *)
(* consumer handling a user.deleted event, from an empty database. The     *)
(* requests are those of users the validation accepts.                     *)
(***************************************************************************)
InitOrders ==
    /\ now = 0
    /\ faults = 0
    /\ orders = <<>>
    /\ outbox = <<>>
    /\ bus = <<>>
    /\ relayReplicas = {}
    /\ procReplicas \in {{"p1"}, Replicas}
    /\ userLog = <<"e1">>
    /\ userEvent = [e \in EventIds |-> UserEvent("user.deleted", "u1", generate_trace_id(0))]
    /\ RelayIdle /\ ProcIdle /\ ApiIdle /\ ConsumerIdle

UserDeletedStep ==
    \/ consume_messages
    \/ \E ok \in BOOLEAN : handle_message(ok)
    \/ \E ok \in BOOLEAN : handle_user_deleted_select(ok)
    \/ handle_user_deleted_cancel
    \/ \E ok \in BOOLEAN : handle_user_deleted_cleanup(ok)
    \/ \E ok \in BOOLEAN : handle_message_mark(ok)
    \/ \E ok \in BOOLEAN : handle_message_commit(ok)

NextOrders ==
    \/ Tick
    \/ \E r \in Requests, u \in Users, cached \in {"miss", "active"},
          directory \in {"none", "active"} :
             create_order_stage(r, u, cached, directory, TRUE)
    \/ \E r \in Requests, committed \in BOOLEAN : create_order(r, committed)
    \/ \E p \in Replicas : ProcStep(p)
    \/ \E p \in Replicas : order_processor_killed(p)
    \/ UserDeletedStep

SpecOrders == InitOrders /\ [][NextOrders]_vars

(***************************************************************************)
(* The lifecycle processor replicas alone, over a database with a history. *)
(***************************************************************************)
InitProcessors ==
    /\ \E h \in Histories :
          /\ orders = Replay(EmptyDb, h, 0).orders
          /\ outbox = Replay(EmptyDb, h, 0).outbox
          /\ now = Len(h) * (ORDER_SHIP_DELAY + 1)
    /\ faults = 0
    /\ bus = <<>>
    /\ relayReplicas = {}
    /\ procReplicas \in {{"p1"}, Replicas}
    /\ RelayIdle /\ ProcIdle /\ ApiIdle /\ NoUserEvents /\ ConsumerIdle

NextProcessors ==
    \/ TickTo(MaxLateTime)
    \/ \E p \in Replicas : ProcStep(p)
    \/ \E p \in Replicas : order_processor_killed(p)

SpecProcessors == InitProcessors /\ [][NextProcessors]_vars

(***************************************************************************)
(* The order API alone: requests of any user, over a database with a       *)
(* history and a cache the consumer has filled.                            *)
(***************************************************************************)
InitApi ==
    /\ \E h \in Histories :
          /\ orders = Replay(EmptyDb, h, 0).orders
          /\ outbox = Replay(EmptyDb, h, 0).outbox
          /\ now = Len(h) * (ORDER_SHIP_DELAY + 1)
    /\ faults = 0
    /\ bus = <<>>
    /\ relayReplicas = {}
    /\ procReplicas = {}
    /\ RelayIdle /\ ProcIdle /\ ApiIdle /\ NoUserEvents
    /\ conPos = 1 /\ conCommitted = 1 /\ conPc = "idle" /\ conBatch = <<>>
    /\ processed = {} /\ duplicates = 0 /\ handled = [e \in EventIds |-> 0]
    /\ TracingIdle
    /\ userCache \in SUBSET Users

NextApi ==
    \/ \E r \in Requests, u \in Users, cached \in {"miss", "active", "inactive", "error"},
          directory \in DirectoryReplies \cup {"none"}, cache_written \in BOOLEAN :
             create_order_stage(r, u, cached, directory, cache_written)
    \/ \E r \in Requests : create_order_rejected(r)
    \/ \E r \in Requests, committed \in BOOLEAN : create_order(r, committed)
    \/ \E database \in {"ok", "raises"}, ping \in {"alive", "dead", "raises"} :
          readiness(database, ping)
    \/ \E raised \in BOOLEAN : lifespan_shutdown(raised)
    \/ \E task \in {"consumer_task", "processor_task"} : background_task_done(task)

SpecApi == InitApi /\ [][NextApi]_vars

(***************************************************************************)
(* A task that sets trace contexts and creates outbox events in a session. *)
(***************************************************************************)
InitOutbox ==
    /\ now = 0
    /\ faults = 0
    /\ orders = <<>>
    /\ outbox = <<>>
    /\ bus = <<>>
    /\ relayReplicas = {}
    /\ procReplicas = {}
    /\ RelayIdle /\ ProcIdle /\ ApiIdle /\ NoUserEvents
    /\ ConsumerIdle

NextOutbox ==
    \/ \E ctx \in Contexts : set_context(ctx)
    \/ clear_context
    \/ \E event_type \in {"order.created", "order.confirmed"},
          order_id \in 1..MaxOrders, partition_key \in Users \cup {NoKey} :
          session_create_event(event_type, order_id, partition_key)
    \/ session_commit
    \/ session_rollback

SpecOutbox == InitOutbox /\ [][NextOutbox]_vars

(***************************************************************************)
(* The parse of a traceparent header and the formatting of the result.     *)
(***************************************************************************)
InitTracing ==
    /\ now = 0
    /\ faults = 0
    /\ orders = <<>>
    /\ outbox = <<>>
    /\ bus = <<>>
    /\ relayReplicas = {}
    /\ procReplicas = {}
    /\ RelayIdle /\ ProcIdle /\ ApiIdle /\ NoUserEvents
    /\ conPos = 1 /\ conCommitted = 1 /\ conPc = "idle" /\ conBatch = <<>>
    /\ processed = {} /\ userCache = {} /\ duplicates = 0
    /\ handled = [e \in EventIds |-> 0]
    /\ header \in Headers
    /\ context = NoContext
    /\ traceparent = <<>>
    /\ store = [t \in Tasks |-> NoIds]
    /\ ServiceIdle

NextTracing ==
    \/ parse_traceparent
    \/ send_traceparent

SpecTracing == InitTracing /\ [][NextTracing]_vars

(***************************************************************************)
(* The consumer alone, on a log of user events over a fixed database.      *)
(***************************************************************************)
UserLogs == UNION {[1..n -> EventIds] : n \in 1..MaxLog}

InitConsumer ==
    /\ \E h \in Histories :
          /\ \A i \in 1..Len(h) : h[i].user_id # "u2"
          /\ orders = Replay(EmptyDb, h, 0).orders
          /\ outbox = Replay(EmptyDb, h, 0).outbox
          /\ now = Len(h) * (ORDER_SHIP_DELAY + 1)
    /\ faults = 0
    /\ bus = <<>>
    /\ relayReplicas = {}
    /\ procReplicas = {}
    /\ userLog \in UserLogs
    /\ userEvent \in [EventIds -> {UserEvent(t, "u1", tr) : t \in UserEventTypes,
                                                       tr \in InboundTraces}]
    /\ RelayIdle /\ ProcIdle /\ ApiIdle /\ ConsumerIdle

NextConsumer ==
    \/ ConsumerStep
    \/ consumer_restarted
    \/ processed_event_expired

SpecConsumer == InitConsumer /\ [][NextConsumer]_vars

(***************************************************************************)
(* The consumer on a log whose first message may be malformed.             *)
(***************************************************************************)
InboundEvents ==
    {UserEvent(t, u, tr) : t \in UserEventTypes \cup {MissingField},
                           u \in {"u1", InvalidData},
                           tr \in InboundTraces \cup {Undecodable}}

InitInbound ==
    /\ \E h \in Histories :
          /\ \A i \in 1..Len(h) : h[i].user_id # "u2"
          /\ orders = Replay(EmptyDb, h, 0).orders
          /\ outbox = Replay(EmptyDb, h, 0).outbox
          /\ now = Len(h) * (ORDER_SHIP_DELAY + 1)
    /\ faults = 0
    /\ bus = <<>>
    /\ relayReplicas = {}
    /\ procReplicas = {}
    /\ userLog \in UserLogs
    /\ userEvent \in [EventIds -> InboundEvents]
    /\ userEvent["e2"] = UserEvent("user.deleted", "u1", NULL)
    /\ RelayIdle /\ ProcIdle /\ ApiIdle /\ ConsumerIdle

SpecInbound == InitInbound /\ [][NextConsumer]_vars

\* the relay under fair scheduling: a running worker keeps taking steps
InitRelayLive == InitRelay

SpecRelayLive ==
    InitRelayLive /\ [][NextRelay]_vars /\ \A w \in Workers : WF_vars(RelayStep(w))

\* relay workers that receive SIGINT or SIGTERM: a worker that runs keeps
\* taking steps
NextRelayShutdown ==
    \/ \E w \in Workers : RelayStep(w)
    \/ \E w \in Workers : signal_handler(w)
    \/ \E w \in Workers : ShutdownStep(w)

SpecRelayShutdown ==
    /\ InitRelayLive
    /\ [][NextRelayShutdown]_vars
    /\ \A w \in Workers : WF_vars(RelayStep(w)) /\ WF_vars(ShutdownStep(w))

\* the API, one relay worker and the consumer handling a user.deleted event
\* of user u1, over a database with a history
InitCancel ==
    /\ \E h \in RelayHistories :
          /\ orders = Replay(EmptyDb, h, 0).orders
          /\ outbox = Replay(EmptyDb, h, 0).outbox
          /\ now = Len(h) * (ORDER_SHIP_DELAY + 1)
    /\ Len(outbox) <= MaxLiveRows
    /\ faults = 0
    /\ bus = <<>>
    /\ relayReplicas = {"w1"}
    /\ procReplicas = {}
    /\ userLog = <<"e1">>
    /\ userEvent = [e \in EventIds |-> UserEvent("user.deleted", "u1", generate_trace_id(0))]
    /\ RelayIdle /\ ProcIdle /\ ApiIdle /\ ConsumerIdle

NextCancel ==
    \/ \E r \in Requests, u \in Users, cached \in {"miss", "active"},
          directory \in {"none", "active"} :
             create_order_stage(r, u, cached, directory, TRUE)
    \/ \E r \in Requests, committed \in BOOLEAN : create_order(r, committed)
    \/ \E w \in Workers : RelayStep(w)
    \/ UserDeletedStep

SpecCancel == InitCancel /\ [][NextCancel]_vars

\* the processors under fair scheduling: a running replica keeps taking
\* steps; the failed commits and the crashes are bounded by MaxFaults, after
\* which the database is available
InitProcessorsLive ==
    /\ InitProcessors
    /\ Len(outbox) <= MaxLiveRows

SpecProcessorsLive ==
    /\ InitProcessorsLive
    /\ [][NextProcessors]_vars
    /\ \A p \in Replicas : WF_vars(ProcStep(p))

(***************************************************************************)
(* Properties                                                              *)
(***************************************************************************)
BusPositions(event_id) ==
    {q \in DOMAIN bus : bus[q].event_id = event_id /\ bus[q].by \in Workers}

\* C3: every committed outbox row is eventually marked published, given that
\* the relay keeps running (or is restarted) and the bus accepts publishes.
EveryRowEventuallyPublished ==
    \A i \in 1..MaxOutboxRows :
        (i \in DOMAIN outbox) ~> (i \in DOMAIN outbox /\ outbox[i].published)

\* the first position of a row's message on the bus
FirstPosition(event_id) ==
    CHOOSE q \in BusPositions(event_id) :
        \A p \in BusPositions(event_id) : q <= p

\* rows i and j carry the same partition key and i was created first
EarlierOfKey(i, j) ==
    /\ i \in DOMAIN outbox /\ j \in DOMAIN outbox
    /\ outbox[i].partition_key # NoKey
    /\ outbox[i].partition_key = outbox[j].partition_key
    /\ outbox[i].created_at < outbox[j].created_at

\* both rows are on the bus, the earlier one first
AcceptedInOrder(i, j) ==
    /\ i \in DOMAIN outbox /\ j \in DOMAIN outbox
    /\ BusPositions(outbox[i].event_id) # {}
    /\ BusPositions(outbox[j].event_id) # {}
    /\ FirstPosition(outbox[i].event_id) < FirstPosition(outbox[j].event_id)

\* C10: with a single relay worker, of two rows with the same partition_key
\* the one created earlier is accepted by the bus before the one created
\* later, so that order.created reaches the bus before order.confirmed and
\* order.confirmed before order.shipped.
SingleWorkerKeyOrder ==
    \A i, j \in 1..MaxOutboxRows :
        (Cardinality(relayReplicas) = 1 /\ EarlierOfKey(i, j))
            ~> AcceptedInOrder(i, j)

\* C11: with two relay workers, of two rows with the same partition_key the
\* one created earlier is published to the bus before the one created later.
MultiWorkerKeyOrder ==
    \A i, j \in 1..MaxOutboxRows :
        (Cardinality(relayReplicas) >= 2 /\ EarlierOfKey(i, j))
            ~> AcceptedInOrder(i, j)

\* C2: an order change and its outbox row are committed together or not at
\* all: every step that changes the orders table adds exactly one outbox row,
\* for the changed order and of the matching type, and every step that adds
\* an outbox row changes the order it names.
ChangeAndOutboxRowTogether ==
    [][/\ (orders' # orders) <=> (outbox' # outbox)
       /\ outbox' # outbox =>
            /\ Len(outbox') = Len(outbox) + 1
            /\ \A i \in DOMAIN outbox : outbox'[i] = outbox[i]
            /\ LET e == outbox'[Len(outbox')]
                   o == e.order_id
               IN /\ o \in DOMAIN orders'
                  /\ \A x \in DOMAIN orders : x # o => orders'[x] = orders[x]
                  /\ e.event_type = "order.created" =>
                        o \notin DOMAIN orders /\ orders'[o].status = "pending"
                  /\ e.event_type = "order.confirmed" =>
                        /\ o \in DOMAIN orders
                        /\ orders'[o] # orders[o]
                        /\ orders'[o].confirmed_at = e.created_at
                  /\ e.event_type = "order.shipped" =>
                        /\ o \in DOMAIN orders
                        /\ orders'[o] # orders[o]
                        /\ orders'[o].shipped_at = e.created_at]_vars

\* a transaction has failed before its commit, an order has been created
\* with its row, and a processor goes on after the transition of the first
\* order of its batch failed
CreatedAfterFailedTransaction ==
    /\ faults > 0
    /\ \E p \in Replicas : procPc[p] = "confirm_load"
    /\ \A o \in DOMAIN orders :
          /\ orders[o].status = "pending"
          /\ OutboxRowsOf(outbox, o, "order.created") # {}
          /\ OutboxRowsOf(outbox, o, "order.confirmed") = {}

\* C8: the consumer applies the side effect of an event_id at most once.
SideEffectAtMostOnce == \A e \in EventIds : handled[e] <= 1

\* C8, restricted to deliveries that find the processed_event marker: such a
\* delivery increments the duplicate metric and commits the offset, and
\* changes neither the cache, nor an order, nor the bus.
MarkedEventOnlyCounted ==
    [][(conPc = "check" /\ CurId \in processed /\ conPc' # conPc) =>
          /\ conPc' = "idle"
          /\ userCache' = userCache
          /\ handled' = handled
          /\ orders' = orders
          /\ bus' = bus
          /\ faults' = faults =>
                (duplicates' = duplicates + 1 /\ conCommitted' = conPos)]_vars

\* an event has been handled once, delivered again and counted as a
\* duplicate, and the log is committed to its end
DuplicateDeliveryCounted ==
    /\ duplicates > 0
    /\ conPc = "idle"
    /\ conCommitted = Len(userLog) + 1
    /\ \E e \in Range(userLog) : handled[e] = 1 /\ e \in processed

\* C9: a message whose handling raised is not skipped: every message below
\* the committed offset has had its handler run to completion.
NoMessageSkipped ==
    \A i \in 1..(conCommitted - 1) : handled[userLog[i]] >= 1

\* C15: handling a user.deleted event cancels the user's orders: when the
\* handler has returned, no order of the deleted user is pending or
\* confirmed, and the bus holds an order.cancelled message keyed by the user
\* for every order the handler selected.
UserDeletedCancelsOrders ==
    (conPc = "mark" /\ CurEvent.event_type = "user.deleted") =>
        CancellableOrders(CurEvent.user_id) = {}

\* the order.cancelled messages on the bus for an order
CancelMessagesOf(o) ==
    {i \in DOMAIN bus : bus[i].event_type = "order.cancelled" /\ bus[i].order_id = o}

\* C16: an order is cancelled in the database only after its order.cancelled
\* message was accepted by the bus: every cancelled order has a matching
\* message on the bus, and a step of the cancellation loop that puts nothing
\* on the bus leaves every order as it was.
CancelledOnlyAfterPublish ==
    /\ [](\A o \in DOMAIN orders :
             orders[o].status = "cancelled" => CancelMessagesOf(o) # {})
    /\ [][(conPc = "cancel" /\ bus' = bus) => orders' = orders]_vars

\* the cancellation loop has gone through the orders of a deleted user, the
\* publish failed for each of them, and they are in the status they had
OrderKeptAfterFailedPublish ==
    /\ conPc = "cleanup"
    /\ CurEvent.event_type = "user.deleted"
    /\ CancelMessagesOf(1) = {}
    /\ 1 \in CancellableOrders(CurEvent.user_id)

\* C17: a user.deleted event is neither marked processed nor has its offset
\* committed while an order of the user whose cancellation failed is still
\* pending or confirmed.
FailedCancellationNotAcknowledged ==
    \A i \in DOMAIN userLog :
        (/\ userEvent[userLog[i]].event_type = "user.deleted"
         /\ handled[userLog[i]] >= 1
         /\ userLog[i] \in processed \/ conCommitted > i) =>
            CancellableOrders(userEvent[userLog[i]].user_id) = {}

\* the user of a request was not found or is not active, by the cache entry
\* or, on a miss, by the directory
UserNotFoundOrInactive(o) ==
    \/ o.cached = "inactive"
    \/ o.cached = "miss" /\ o.directory \in {"inactive", "not_found"}

\* C20: a create-order request whose user is not found or not active fails
\* with 404, and writes no order row and no outbox row.
InvalidUserRejected ==
    /\ [](\A r \in Requests :
             (apiPc[r] # "idle" /\ UserNotFoundOrInactive(apiOrder[r])) =>
                 apiPc[r] = "rejected")
    /\ [][\A r \in Requests :
             (apiPc'[r] # apiPc[r] /\ "rejected" \in {apiPc[r], apiPc'[r]}) =>
                 (orders' = orders /\ outbox' = outbox)]_vars

\* a request of a user the cache holds as inactive has been rejected, in a
\* database that holds an order of that user
CachedInactiveUserRejected ==
    \E r \in Requests :
        /\ apiPc[r] = "rejected"
        /\ apiOrder[r].cached = "inactive"
        /\ \E o \in DOMAIN orders : orders[o].user_id = apiOrder[r].user_id

\* C21: order creation answers 404 only for a user that is missing or
\* inactive; a validation that failed for an infrastructure reason (the
\* cache or the directory raised) is not answered with 404.
NotFoundOnlyForUnusableUser ==
    \A r \in Requests :
        apiPc[r] = "rejected" => UserNotFoundOrInactive(apiOrder[r])

\* C23: with the processor running and the database available, an order
\* that is pending past ORDER_CONFIRM_DELAY is eventually confirmed, with a
\* payment_id and an order.confirmed outbox row, and an order that is
\* confirmed past ORDER_SHIP_DELAY is eventually shipped, with
\* tracking_number, carrier and an order.shipped outbox row. The ship delay
\* counts from the confirmed_at the order has: an order whose confirmed_at is
\* written again waits for the delay again.
EligibleOrderEventuallyMoved ==
    \A o \in OrderIds :
        /\ (/\ o \in DOMAIN orders
            /\ orders[o].status = "pending"
            /\ orders[o].created_at < now - ORDER_CONFIRM_DELAY)
              ~> (/\ o \in DOMAIN orders
                  /\ orders[o].status \in {"confirmed", "shipped"}
                  /\ orders[o].payment_id # NULL
                  /\ OutboxRowsOf(outbox, o, "order.confirmed") # {})
        /\ (/\ o \in DOMAIN orders
            /\ orders[o].status = "confirmed"
            /\ orders[o].confirmed_at < now - ORDER_SHIP_DELAY)
              ~> (/\ o \in DOMAIN orders
                  /\ \/ /\ orders[o].status = "shipped"
                        /\ orders[o].tracking_number # NULL
                        /\ orders[o].carrier = "FedEx"
                        /\ OutboxRowsOf(outbox, o, "order.shipped") # {}
                     \/ /\ orders[o].status = "confirmed"
                        /\ orders[o].confirmed_at >= now - ORDER_SHIP_DELAY)

\* C25: rows that keep failing do not keep a younger unpublished row from
\* being attempted: with one worker, every unpublished row is eventually
\* taken into a batch or published.
FailingRowsBlockNoRow ==
    \A i \in 1..MaxOutboxRows :
        (relayReplicas = {"w1"} /\ i \in DOMAIN outbox /\ ~outbox[i].published)
            ~> (i \in DOMAIN outbox /\ (outbox[i].published
                                         \/ i \in Range(relayBatch["w1"])))

\* a header value of the form 00-{hex}-{hex}-{2 hex} with ids of the right
\* length that are not all zeros
WellFormed(parts) ==
    /\ Len(parts) = 4
    /\ parts[1] = <<"0", "0">>
    /\ Len(parts[2]) = TraceIdLen /\ Range(parts[2]) \subseteq HexDigits
    /\ parts[2] # Zeros(TraceIdLen)
    /\ Len(parts[3]) = SpanIdLen /\ Range(parts[3]) \subseteq HexDigits
    /\ parts[3] # Zeros(SpanIdLen)
    /\ Len(parts[4]) = 2 /\ Range(parts[4]) \subseteq HexDigits

\* C27: parsing a traceparent header returns none for every input that is
\* not of the form 00-{32 hex}-{16 hex}-{2 hex}.
MalformedHeaderGivesNone == context.ok => WellFormed(header)

\* C28: when the parse succeeds, the context has the trace_id of the header,
\* a generated span_id and the span_id of the header as parent_span_id, and
\* the header formatted from it has that trace_id and the new span_id in
\* third position.
ParsedContextContinuesTrace ==
    /\ context.ok =>
          /\ context.trace_id = header[2]
          /\ context.span_id \in SpanIds
          /\ context.parent_span_id = header[3]
    /\ traceparent # <<>> =>
          /\ traceparent[1] = <<"0", "0">>
          /\ traceparent[2] = header[2]
          /\ traceparent[3] = context.span_id
          /\ traceparent[3] \in SpanIds

\* a header whose span id is not the generated one has been parsed, and the
\* context formatted
HeaderParsedAndFormatted ==
    /\ context.ok
    /\ WellFormed(header)
    /\ header[3] \notin SpanIds
    /\ traceparent # <<>>

\* C29: a malformed inbound message never stops the consumer: whatever the
\* headers and the payload of a message are, the loop of the consumer is
\* never left.
MalformedMessageNeverStopsConsumer == conPc # "crashed"

\* a task that is inside a unit of work
InUnit(task) ==
    IF task \in Replicas THEN procPc[task] = "confirm_commit"
    ELSE IF task \in Requests THEN apiPc[task] # "idle"
    ELSE conPc \notin {"idle", "check", "crashed"}

\* the ids of the unit of work a task is inside
UnitIds(task) ==
    IF task \in Replicas
    THEN IF original_event_raises(outbox, Head(procBatch[task]),
                                  orders[Head(procBatch[task])].user_id)
         THEN NoIds
         ELSE [trace_id |-> ProcessorTrace(outbox, Head(procBatch[task]),
                                           orders[Head(procBatch[task])].user_id),
               parent_span_id |-> ProcessorParent(outbox, Head(procBatch[task]),
                                                  orders[Head(procBatch[task])].user_id)]
    ELSE IF task \in Requests
    THEN [trace_id |-> RequestTrace, parent_span_id |-> NULL]
    ELSE [trace_id |-> CurEvent.trace_id, parent_span_id |-> CurEvent.trace_id]

\* C30: no trace context leaks between units of work: between two units the
\* store of a task holds no trace_id and no parent_span_id, and inside a
\* unit it holds the ids of that unit and of no other.
NoTraceContextLeaks ==
    \A task \in Tasks :
        store[task] = IF InUnit(task) THEN UnitIds(task) ELSE NoIds

\* a processor is on the second order of its batch, without a lock since the
\* rollback of the first, and its store is empty
SecondOrderStartsClean ==
    \E p \in Replicas :
        /\ procPc[p] = "confirm_commit"
        /\ Len(procBatch[p]) = 1
        /\ orderLocks[p] = {}
        /\ store[p] = NoIds

\* C31: every order event carries the user_id of its order as partition key:
\* each order.created, order.confirmed and order.shipped row of the outbox,
\* and each order.cancelled message the consumer published.
OrderEventsKeyedByUser ==
    /\ \A i \in DOMAIN outbox :
          outbox[i].event_type \in {"order.created", "order.confirmed", "order.shipped"}
              => /\ outbox[i].order_id \in DOMAIN orders
                 /\ outbox[i].partition_key = orders[outbox[i].order_id].user_id
    /\ \A j \in DOMAIN bus :
          bus[j].event_type = "order.cancelled"
              => bus[j].key = orders[bus[j].order_id].user_id

\* the orders of two users have their order.created rows
TwoUsersOrdersCreated ==
    /\ DOMAIN orders = {1, 2}
    /\ orders[1].user_id # orders[2].user_id
    /\ \A o \in {1, 2} : OutboxRowsOf(outbox, o, "order.created") # {}

\* C32: GET /health/ready answers 200 with status ready exactly when the
\* database check and the ping of the fast store both pass, and 503 with
\* status not ready otherwise; the checks map reports each dependency by
\* itself, whatever the other one did.
ReadinessReportsEachDependency ==
    health.status_code # 0 =>
        /\ (health.database = "ok" /\ health.redis = "alive")
              => (health.status_code = 200 /\ health.status = "ready")
        /\ ~(health.database = "ok" /\ health.redis = "alive")
              => (health.status_code = 503 /\ health.status = "not ready")
        /\ health.checks.database = "connected" <=> health.database = "ok"
        /\ health.checks.redis = "connected" <=> health.redis = "alive"
        /\ health.checks.database # "absent"
        /\ health.checks.redis # "absent"

\* a probe found the database failing and the fast store alive
DatabaseDownRedisReported ==
    /\ health.status_code = 503
    /\ health.checks.database = "error"
    /\ health.checks.redis = "connected"

\* C33: on shutdown the consumer task and the processor task are cancelled
\* and their exits awaited before the bus consumer, the bus producer and the
\* fast-store client are closed: no task is running while a client is closed.
TasksExitedBeforeClientsClosed ==
    lifespan.closed # {} =>
        /\ lifespan.consumer_task \in {"cancelled", "failed"}
        /\ lifespan.processor_task \in {"cancelled", "failed"}

\* the shutdown is complete after both tasks were cancelled
ShutdownCompleteAfterCancel ==
    /\ lifespan.pc = "complete"
    /\ lifespan.closed = {"kafka_consumer", "kafka_producer", "redis_client"}
    /\ lifespan.consumer_task = "cancelled"
    /\ lifespan.processor_task = "cancelled"

\* C35: when the transition of one order fails, or the processor is killed
\* before the commit, no order and no outbox row changes, so that the order
\* keeps its status and fields, gets no row and stays eligible, and the
\* orders committed before stay committed; after a failed transition the
\* loop goes on with the remaining orders of the batch, and a killed
\* processor starts again with the selection.
FailedTransitionIsolated ==
    [][\A p \in Replicas :
          (/\ procPc[p] = "confirm_commit"
           /\ procPc'[p] # "confirm_commit"
           /\ orders'[Head(procBatch[p])] = orders[Head(procBatch[p])]) =>
              /\ orders' = orders
              /\ outbox' = outbox
              /\ \/ /\ procBatch'[p] = Tail(procBatch[p])
                    /\ Tail(procBatch[p]) # <<>> => procPc'[p] = "confirm_load"
                    /\ Tail(procBatch[p]) = <<>> =>
                          procPc'[p] = "process_confirmed_orders"
                 \/ /\ faults' # faults
                    /\ procBatch'[p] = <<>>
                    /\ procPc'[p] = "process_pending_orders"]_vars

\* the confirmation of the first order of a batch has failed and the
\* processor is about to load the second one
BatchGoesOnAfterFailure ==
    \E p \in Replicas :
        /\ faults = 0
        /\ procReplicas = {p}
        /\ procPc[p] = "confirm_load"
        /\ Len(procBatch[p]) = 1
        /\ \A o \in DOMAIN orders : orders[o].status = "pending"
        /\ Cardinality(DOMAIN orders) = 2

\* C36: the consumer commits the offset of a message only after the message
\* was found to be a duplicate or its handler returned and its marker was
\* written, and the marker is never written before the handler succeeded:
\* a step that moves the committed offset is the commit of a duplicate or of
\* a marked message, every message it passes has had its handler succeed,
\* and a step that writes a marker writes it for a handled message.
OffsetCommittedOnlyAfterSuccess ==
    [][/\ conCommitted' # conCommitted =>
             /\ \/ conPc = "check" /\ CurId \in processed
                \/ conPc = "commit"
             /\ \A k \in conCommitted..(conCommitted' - 1) :
                   handled[userLog[k]] >= 1
       /\ \A e \in processed' \ processed : handled[e] >= 1]_vars


\* C37: creating an outbox event adds exactly one unpublished row
\* (published false, attempts 0, published_at null) with a fresh event_id to
\* the open transaction of the caller and commits nothing, and the row
\* stores the trace_id, span_id and parent_span_id of the current trace
\* context, nulls when no context is set.
CreatedEventStoresTraceContext ==
    [][Len(session') = Len(session) + 1 =>
          LET row == session'[Len(session')]
              trace_context == get_trace_context(contextvars, NULL)
          IN /\ SubSeq(session', 1, Len(session)) = session
             /\ outbox' = outbox
             /\ row.published = FALSE /\ row.attempts = 0 /\ row.published_at = NULL
             /\ \A i \in DOMAIN session : session[i].event_id # row.event_id
             /\ \A i \in DOMAIN outbox : outbox[i].event_id # row.event_id
             /\ {"trace_id", "span_id", "parent_span_id"} \subseteq DOMAIN row
             /\ row.trace_id = trace_context.trace_id
             /\ row.span_id = trace_context.span_id
             /\ row.parent_span_id = trace_context.parent_span_id]_vars

\* C39: setting a trace context and then reading the current context gives
\* the trace_id, span_id and parent_span_id that were set, whatever context
\* was current before; a context set without a parent never reads back with
\* the parent_span_id of an earlier context.
GetReturnsTheContextSet ==
    passed # NoTrace => get_trace_context(contextvars, NULL) = passed


\* C38: after SIGINT or SIGTERM has set the shutdown flag, the relay worker
\* starts no new poll cycle (its batch only gets shorter), the flag stays
\* set, the worker stops between two rows only (with its batch finished, no
\* row locked and every row either published with its published_at or
\* unpublished without one), and it stops the producer and terminates.
RelayShutsDownGracefully ==
    /\ [][\A w \in Workers :
             shutdown_flag[w] =>
                 /\ shutdown_flag'[w]
                 /\ Len(relayBatch'[w]) <= Len(relayBatch[w])]_vars
    /\ [](\A w \in Workers :
             relayPc[w] \in {"stopping", "stopped"} =>
                 /\ relayBatch[w] = <<>>
                 /\ rowLocks[w] = {}
                 /\ \A i \in DOMAIN outbox :
                       outbox[i].published = (outbox[i].published_at # NULL))
    /\ \A w \in Workers : shutdown_flag[w] ~> (relayPc[w] = "stopped")

\* a worker was told to shut down and has stopped while a row of the outbox
\* is still unpublished, and the other worker is in the middle of a cycle
StoppedWithRowsLeft ==
    \E w, v \in Workers :
        /\ shutdown_flag[w]
        /\ relayPc[w] = "stopped"
        /\ relayPc[v] = "row"
        /\ \E j \in DOMAIN outbox : ~outbox[j].published


====
